---- MODULE Spec2Model ----
(***************************************************************************)
(* Training loop driver of src/train.py: the command-line entry point,     *)
(* optimizer / scheduler construction, checkpoint restore, the choice of   *)
(* the execution mode, the epoch and batch loops with the replicas of the  *)
(* forward pass, the exceptions that leave the logger scope, the           *)
(* epoch-level log with its checkpoint, and an external kill / relaunch    *)
(* of the process with a persisted checkpoint.                             *)
(*                                                                         *)
(* Learning rates are kept as the exponent k of lr = base_lr * 0.1^k.      *)
(* Module parameters are kept as the sequence of optimizer updates that    *)
(* produced them (their lineage), so that two parameter values are equal   *)
(* exactly when the same updates were applied in the same order.           *)
(*                                                                         *)
(* torch.optim.lr_scheduler.MultiStepLR is modelled in its chainable form  *)
(* (PyTorch >= 1.4): step() multiplies the learning rate that is stored in *)
(* the optimizer by gamma when the new last_epoch is a milestone.          *)
(***************************************************************************)
EXTENDS Integers, Sequences, FiniteSets, TLC

\* ---------------------------------------------------------------- bounds
MaxEpochs == 2
MaxFreq == 2
MaxDataset == 3
MaxBatch == 2
MaxRepeats == 2
MaxLoaderLen == 4
MaxRestarts == 1
MaxDevices == 2

VARIABLES
    train_params,   \* config['train_params'] (immutable)
    dataset_len,    \* len(dataset) as handed to train()
    config_exists,  \* os.path.exists(args.config)
    cuda_available, \* torch.cuda.is_available()
    device_ids,     \* number of entries of args.device_ids
    log_dir,        \* the Logger has created its files under log_dir
    built,          \* what __main__ and train() have constructed so far
    model,          \* execution mode of the model of train.py:48-54
    repeater,       \* the dataset given to the DataLoader is a DatasetRepeater
    replicas,       \* replicas of the forward pass in flight, one per shard
    checkpoint,     \* the checkpoint argument of train()
    restarts,       \* number of relaunches of the process so far
    store,          \* checkpoint files on disk, one per epoch tag
    atPersist,      \* live state at the latest persist call of each tag
    lastWritten,    \* tag of the most recently written checkpoint, -1 if none
    pc,             \* position of the driver
    exc,            \* exception propagating out of the with-block, "none" if none
    start_epoch,    \* train.py:35/38
    epoch,          \* loop variable of train.py:58
    it,             \* next value of the range iterator of train.py:58
    params,         \* module name -> lineage of optimizer updates
    opt,            \* optimizer: lr exponent, number of updates
    grads,          \* number of batches accumulated in the .grad buffers
    scheduler,      \* MultiStepLR: built, last_epoch, steps taken by the loop
    loader_len,     \* len of the dataset given to the DataLoader
    remaining,      \* examples of the current pass not yet consumed by the sampler
    x,              \* the local x of train.py:59
    generated,      \* the local generated of train.py:60
    logger,         \* Logger: open, epoch, has_models, iters, epochs
    stats           \* per-process counts: optimizer steps, batches, persists, ...

vars == <<train_params, dataset_len, config_exists, cuda_available, device_ids,
          log_dir, built, model, repeater, replicas, checkpoint, restarts, store,
          atPersist, lastWritten, pc, exc, start_epoch, epoch, it, params, opt,
          grads, scheduler, loader_len, remaining, x, generated, logger, stats>>

\* What the command line, the configuration file and the host fix for a run.
inputs == <<train_params, dataset_len, config_exists, cuda_available, device_ids>>

\* What outlives the process.
persistent == <<inputs, store, atPersist, lastWritten, log_dir>>

\* What the process constructs before the epoch loop, and the replicas in flight.
wiring == <<built, model, repeater, replicas>>

\* ---------------------------------------------------------------- inputs
Modules == {"generator", "region_predictor", "bg_predictor"}

GridParams ==
    [num_epochs       : 0..MaxEpochs,
     checkpoint_freq  : 1..MaxFreq,
     batch_size       : 1..MaxBatch,
     has_num_repeats  : BOOLEAN,
     num_repeats      : 1..MaxRepeats,
     epoch_milestones : SUBSET (1..MaxEpochs),
     has_use_sync_bn  : {FALSE},
     use_sync_bn      : {FALSE}]

\* num_epochs=1, checkpoint_freq=1, 4 examples, batch_size=2, num_repeats=1
EndToEndParams ==
    [num_epochs |-> 1, checkpoint_freq |-> 1, batch_size |-> 2,
     has_num_repeats |-> TRUE, num_repeats |-> 1, epoch_milestones |-> {},
     has_use_sync_bn |-> FALSE, use_sync_bn |-> FALSE]

\* Two epochs of two batches, one checkpoint at the end.
TwoEpochParams ==
    [num_epochs |-> 2, checkpoint_freq |-> 2, batch_size |-> 2,
     has_num_repeats |-> TRUE, num_repeats |-> 1, epoch_milestones |-> {},
     has_use_sync_bn |-> FALSE, use_sync_bn |-> FALSE]

\* epoch_milestones=[5,10] with a checkpoint tagged epoch 5
MilestoneParams ==
    [num_epochs |-> 6, checkpoint_freq |-> 6, batch_size |-> 1,
     has_num_repeats |-> TRUE, num_repeats |-> 1, epoch_milestones |-> {5, 10},
     has_use_sync_bn |-> FALSE, use_sync_bn |-> FALSE]

\* train_params p with the optional use_sync_bn key absent, false or true.
SyncVariants(p) ==
    {[p EXCEPT !.has_use_sync_bn = h, !.use_sync_bn = s] :
        <<h, s>> \in {<<FALSE, FALSE>>, <<TRUE, FALSE>>, <<TRUE, TRUE>>}}

\* The host: whether an accelerator is there, and how many --device_ids.
Hosts == [cuda_available : BOOLEAN, device_ids : 1..MaxDevices]

HostOnly == [cuda_available |-> FALSE, device_ids |-> 1]

\* Triples of train_params, dataset size and host; the repeated dataset is kept
\* short, and the grid of train_params runs on a host without accelerator.
Configurations ==
    {c \in GridParams \X (1..MaxDataset) \X {HostOnly} :
        c[2] * c[1].num_repeats <= MaxLoaderLen}
        \cup {<<EndToEndParams, 4, HostOnly>>, <<MilestoneParams, 1, HostOnly>>}
        \cup (SyncVariants(TwoEpochParams) \X {4} \X Hosts)

NoCheckpoint == [kind |-> "none", tag |-> 0]
MissingCheckpoint == [kind |-> "missing", tag |-> 0]
CorruptCheckpoint == [kind |-> "corrupt", tag |-> 0]
PathTo(tag) == [kind |-> "path", tag |-> tag]

\* ---------------------------------------------------------------- helpers
Unbound == [bound |-> FALSE, epoch |-> 0, idx |-> 0, size |-> 0]

NewOptimizer == [lr |-> 0, steps |-> 0]

NewScheduler == [built |-> FALSE, last_epoch |-> -1, steps |-> 0]

NewLogger ==
    [open |-> FALSE, epoch |-> 0, has_models |-> FALSE, iters |-> 0, epochs |-> 0,
     inp |-> Unbound, out |-> Unbound]

NewStats ==
    [opt_steps |-> 0, batches |-> 0, persists |-> 0, forwards |-> 0, backwards |-> 0,
     in_epoch |-> 0, examples |-> 0]

NewParams == [m \in Modules |-> <<>>]

\* Number of configured milestones m with m <= e (bisect_right).
Passed(e) == Cardinality({m \in train_params.epoch_milestones : m <= e})

\* MultiStepLR.get_lr, chainable form: the exponent added at last_epoch = e.
MilestoneDecay(e) == IF e \in train_params.epoch_milestones THEN 1 ELSE 0

\* The live state of a fresh process, given the checkpoint argument.
ProcessStart(arg) ==
    /\ checkpoint' = arg
    /\ built' = {}
    /\ model' = "none"
    /\ repeater' = FALSE
    /\ replicas' = <<>>
    /\ exc' = "none"
    /\ start_epoch' = 0
    /\ epoch' = 0
    /\ it' = 0
    /\ params' = NewParams
    /\ opt' = NewOptimizer
    /\ grads' = 0
    /\ scheduler' = NewScheduler
    /\ loader_len' = 0
    /\ remaining' = 0
    /\ x' = Unbound
    /\ generated' = Unbound
    /\ logger' = NewLogger
    /\ stats' = NewStats

Init ==
    /\ \E c \in Configurations :
            /\ train_params = c[1]
            /\ dataset_len = c[2]
            /\ cuda_available = c[3].cuda_available
            /\ device_ids = c[3].device_ids
    /\ config_exists \in BOOLEAN
    /\ checkpoint \in {NoCheckpoint, MissingCheckpoint, CorruptCheckpoint}
    /\ restarts = 0
    /\ store = {}
    /\ atPersist = {}
    /\ lastWritten = -1
    /\ log_dir = FALSE
    /\ built = {}
    /\ model = "none"
    /\ repeater = FALSE
    /\ replicas = <<>>
    /\ pc = "ParseArgs"
    /\ exc = "none"
    /\ start_epoch = 0
    /\ epoch = 0
    /\ it = 0
    /\ params = NewParams
    /\ opt = NewOptimizer
    /\ grads = 0
    /\ scheduler = NewScheduler
    /\ loader_len = 0
    /\ remaining = 0
    /\ x = Unbound
    /\ generated = Unbound
    /\ logger = NewLogger
    /\ stats = NewStats


\* ------------------------------------------------------- checkpoint store
\* A component map whose bg_predictor entry names the region predictor.
ComponentMapSlip ==
    [generator                |-> params["generator"],
     bg_predictor             |-> params["region_predictor"],
     region_predictor         |-> params["region_predictor"],
     optimizer_reconstruction |-> opt]

\* train.py:70-73: the named-component map handed to log_epoch.
ComponentMap ==
    [generator                |-> params["generator"],
     bg_predictor             |-> params["bg_predictor"],
     region_predictor         |-> params["region_predictor"],
     optimizer_reconstruction |-> opt]

\* persist(epoch, component map): one checkpoint per epoch tag, written whole.
SaveCpk(tag) ==
    /\ store' = {c \in store : c.epoch # tag}
                    \cup {[epoch |-> tag, state |-> ComponentMap]}
    /\ atPersist' = {c \in atPersist : c.epoch # tag}
                    \cup {[epoch |-> tag, params |-> params, opt |-> opt]}
    /\ lastWritten' = tag
    /\ stats' = [stats EXCEPT !.persists = @ + 1]

CheckpointAt(tag) == CHOOSE c \in store : c.epoch = tag

\* restore(path): what load_cpk puts into the live modules and the optimizer,
\* and the epoch it returns.
LoadedParams(c) == [m \in Modules |-> c.state[m]]

LoadedOptimizer(c) == c.state.optimizer_reconstruction

LoadedEpoch(c) == c.epoch

\* ---------------------------------------------------------------- __main__
\* train.py:77-82: the three options are parsed; nothing else has happened.
ParseArgs ==
    /\ pc = "ParseArgs"
    /\ pc' = "CheckConfig"
    /\ UNCHANGED <<persistent, wiring, checkpoint, restarts, exc, start_epoch, epoch,
                   it, params, opt, grads, scheduler, loader_len, remaining, x,
                   generated, logger, stats>>

\* A path check that comes after the log directory has been made.
ConfigNotFoundLate ==
    /\ pc = "CheckConfig"
    /\ ~config_exists
    /\ log_dir' = TRUE
    /\ exc' = "FileNotFoundError"
    /\ pc' = "Aborted"
    /\ UNCHANGED <<inputs, store, atPersist, lastWritten, wiring, checkpoint, restarts,
                   start_epoch, epoch, it, params, opt, grads, scheduler, loader_len,
                   remaining, x, generated, logger, stats>>

\* train.py:85-86: the configuration path does not exist.
ConfigNotFound ==
    /\ pc = "CheckConfig"
    /\ ~config_exists
    /\ exc' = "FileNotFoundError"
    /\ pc' = "Aborted"
    /\ UNCHANGED <<persistent, wiring, checkpoint, restarts, start_epoch, epoch, it,
                   params, opt, grads, scheduler, loader_len, remaining, x, generated,
                   logger, stats>>

\* train.py:85-89: the path exists; the file is opened and parsed.
LoadConfig ==
    /\ pc = "CheckConfig"
    /\ config_exists
    /\ built' = built \cup {"config"}
    /\ pc' = "BuildModules"
    /\ UNCHANGED <<persistent, model, repeater, replicas, checkpoint, restarts, exc,
                   start_epoch, epoch, it, params, opt, grads, scheduler, loader_len,
                   remaining, x, generated, logger, stats>>

\* train.py:92-105: the three modules are constructed, and moved to the
\* accelerator if there is one.
BuildModules ==
    /\ pc = "BuildModules"
    /\ params' = NewParams
    /\ built' = built \cup Modules \cup (IF cuda_available THEN {"cuda"} ELSE {})
    /\ pc' = "BuildDataset"
    /\ UNCHANGED <<persistent, model, repeater, replicas, checkpoint, restarts, exc,
                   start_epoch, epoch, it, opt, grads, scheduler, loader_len, remaining,
                   x, generated, logger, stats>>

\* train.py:107-110: the dataset is constructed and train() is called.
BuildDataset ==
    /\ pc = "BuildDataset"
    /\ built' = built \cup {"dataset"}
    /\ pc' = "Initializing"
    /\ UNCHANGED <<persistent, model, repeater, replicas, checkpoint, restarts, exc,
                   start_epoch, epoch, it, params, opt, grads, scheduler, loader_len,
                   remaining, x, generated, logger, stats>>

\* ------------------------------------------------------------ Initializing
\* train.py:30-32 and 37-38: optimizer over the three modules, no checkpoint.
StartFresh ==
    /\ pc = "Initializing"
    /\ checkpoint.kind = "none"
    /\ opt' = NewOptimizer
    /\ start_epoch' = 0
    /\ pc' = "MakeScheduler"
    /\ built' = built \cup {"optimizer"}
    /\ UNCHANGED <<persistent, model, repeater, replicas, checkpoint, restarts, exc, epoch, it, params, grads,
                   scheduler, loader_len, remaining, x, generated, logger, stats>>

\* A restore that leaves the optimizer as constructed.
RestoreWithoutOptimizer ==
    /\ pc = "Initializing"
    /\ checkpoint.kind = "path"
    /\ LET c == CheckpointAt(checkpoint.tag) IN
        /\ params' = LoadedParams(c)
        /\ opt' = NewOptimizer
        /\ start_epoch' = LoadedEpoch(c)
    /\ pc' = "MakeScheduler"
    /\ built' = built \cup {"optimizer"}
    /\ UNCHANGED <<persistent, model, repeater, replicas, checkpoint, restarts, exc, epoch, it, grads,
                   scheduler, loader_len, remaining, x, generated, logger, stats>>

\* train.py:30-36: optimizer, then load_cpk into the modules and the optimizer.
Restore ==
    /\ pc = "Initializing"
    /\ checkpoint.kind = "path"
    /\ LET c == CheckpointAt(checkpoint.tag) IN
        /\ params' = LoadedParams(c)
        /\ opt' = LoadedOptimizer(c)
        /\ start_epoch' = LoadedEpoch(c)
    /\ pc' = "MakeScheduler"
    /\ built' = built \cup {"optimizer"}
    /\ UNCHANGED <<persistent, model, repeater, replicas, checkpoint, restarts, exc, epoch, it, grads,
                   scheduler, loader_len, remaining, x, generated, logger, stats>>

\* A failed restore that is swallowed: the run goes on from epoch 0.
RestoreFailFallsBack ==
    /\ pc = "Initializing"
    /\ checkpoint.kind \in {"missing", "corrupt"}
    /\ opt' = NewOptimizer
    /\ start_epoch' = 0
    /\ pc' = "MakeScheduler"
    /\ built' = built \cup {"optimizer"}
    /\ UNCHANGED <<persistent, model, repeater, replicas, checkpoint, restarts, exc, epoch, it, params, grads,
                   scheduler, loader_len, remaining, x, generated, logger, stats>>

\* train.py:34-36: load_cpk raises; nothing in train() catches it.
RestoreFail ==
    /\ pc = "Initializing"
    /\ checkpoint.kind \in {"missing", "corrupt"}
    /\ opt' = NewOptimizer
    /\ exc' = IF checkpoint.kind = "missing" THEN "NotFoundError"
                                             ELSE "CorruptCheckpointError"
    /\ pc' = "Aborted"
    /\ built' = built \cup {"optimizer"}
    /\ UNCHANGED <<persistent, model, repeater, replicas, checkpoint, restarts, start_epoch, epoch, it, params,
                   grads, scheduler, loader_len, remaining, x, generated, logger, stats>>

\* A scheduler constructed with last_epoch=start_epoch.
MakeSchedulerFromStart ==
    /\ pc = "MakeScheduler"
    /\ scheduler' = [built |-> TRUE, last_epoch |-> start_epoch + 1, steps |-> 0]
    /\ opt' = [opt EXCEPT !.lr = @ + MilestoneDecay(start_epoch + 1)]
    /\ pc' = "MakeLoader"
    /\ UNCHANGED <<persistent, wiring, checkpoint, restarts, exc, start_epoch, epoch, it,
                   params, grads, loader_len, remaining, x, generated, logger, stats>>

\* train.py:40: MultiStepLR(..., last_epoch=start_epoch - 1); the constructor
\* takes the initial step, which lands last_epoch on start_epoch.
MakeScheduler ==
    /\ pc = "MakeScheduler"
    /\ scheduler' = [built |-> TRUE, last_epoch |-> (start_epoch - 1) + 1, steps |-> 0]
    /\ opt' = [opt EXCEPT !.lr = @ + MilestoneDecay((start_epoch - 1) + 1)]
    /\ pc' = "MakeLoader"
    /\ UNCHANGED <<persistent, wiring, checkpoint, restarts, exc, start_epoch, epoch, it,
                   params, grads, loader_len, remaining, x, generated, logger, stats>>

\* len(DatasetRepeater(dataset, num_repeats))
RepeatedLen(n, repeats) == n * repeats

\* train.py:42-46: the guard is true whenever the key is present.
MakeLoader ==
    /\ pc = "MakeLoader"
    /\ train_params.has_num_repeats
    /\ repeater' = TRUE
    /\ loader_len' = RepeatedLen(dataset_len, train_params.num_repeats)
    /\ pc' = "MakeModel"
    /\ UNCHANGED <<persistent, built, model, replicas, checkpoint, restarts, exc,
                   start_epoch, epoch, it, params, opt, grads, scheduler, remaining, x,
                   generated, logger, stats>>

\* train.py:42: without the key the right operand indexes it and raises KeyError.
MakeLoaderKeyError ==
    /\ pc = "MakeLoader"
    /\ ~train_params.has_num_repeats
    /\ exc' = "KeyError"
    /\ pc' = "Aborted"
    /\ UNCHANGED <<persistent, wiring, checkpoint, restarts, start_epoch, epoch, it, params,
                   opt, grads, scheduler, loader_len, remaining, x, generated, logger,
                   stats>>

\* A choice that replicates whenever more than one device id is given.
ExecutionModeByDevices ==
    IF cuda_available \/ device_ids > 1
        THEN IF train_params.has_use_sync_bn /\ train_params.use_sync_bn
                THEN "ReplicatedSynced"
                ELSE "Replicated"
        ELSE "SingleDevice"

\* train.py:48-54: the bare ReconstructionModel without accelerator, else
\* DataParallelWithCallback if use_sync_bn is present and true, else DataParallel.
ExecutionMode ==
    IF cuda_available
        THEN IF train_params.has_use_sync_bn /\ train_params.use_sync_bn
                THEN "ReplicatedSynced"
                ELSE "Replicated"
        ELSE "SingleDevice"

\* train.py:48-54: the model is built and, with an accelerator, wrapped.
MakeModel ==
    /\ pc = "MakeModel"
    /\ model' = ExecutionMode
    /\ pc' = "OpenLogger"
    /\ UNCHANGED <<persistent, built, repeater, replicas, checkpoint, restarts, exc,
                   start_epoch, epoch, it, params, opt, grads, scheduler, loader_len,
                   remaining, x, generated, logger, stats>>

\* A loop that starts one epoch after start_epoch.
OpenLoggerSkipsEpoch ==
    /\ pc = "OpenLogger"
    /\ logger' = [NewLogger EXCEPT !.open = TRUE]
    /\ it' = start_epoch + 1
    /\ log_dir' = TRUE
    /\ built' = built \cup {"logger"}
    /\ pc' = "ForEpoch"
    /\ UNCHANGED <<inputs, store, atPersist, lastWritten, model, repeater, replicas,
                   checkpoint, restarts, exc, start_epoch, epoch, params, opt, grads,
                   scheduler, loader_len, remaining, x, generated, stats>>

\* train.py:56-58: the logger scope opens and range(start_epoch, num_epochs) is made.
OpenLogger ==
    /\ pc = "OpenLogger"
    /\ logger' = [NewLogger EXCEPT !.open = TRUE]
    /\ it' = start_epoch
    /\ log_dir' = TRUE
    /\ built' = built \cup {"logger"}
    /\ pc' = "ForEpoch"
    /\ UNCHANGED <<inputs, store, atPersist, lastWritten, model, repeater, replicas,
                   checkpoint, restarts, exc, start_epoch, epoch, params, opt, grads,
                   scheduler, loader_len, remaining, x, generated, stats>>

\* ------------------------------------------------------------ EpochRunning
\* train.py:58: the range iterator yields the next epoch index.
ForEpoch ==
    /\ pc = "ForEpoch"
    /\ it < train_params.num_epochs
    /\ epoch' = it
    /\ it' = it + 1
    /\ remaining' = loader_len
    /\ stats' = [stats EXCEPT !.in_epoch = 0, !.examples = 0]
    /\ pc' = "ForBatch"
    /\ UNCHANGED <<persistent, wiring, checkpoint, restarts, exc, start_epoch, params, opt,
                   grads, scheduler, loader_len, x, generated, logger>>

\* train.py:58: the range is exhausted; control leaves the with-block.
LoopDone ==
    /\ pc = "ForEpoch"
    /\ it >= train_params.num_epochs
    /\ pc' = "Exit"
    /\ UNCHANGED <<persistent, wiring, checkpoint, restarts, exc, start_epoch, epoch, it,
                   params, opt, grads, scheduler, loader_len, remaining, x, generated,
                   logger, stats>>

\* A batch sampler that also yields the short trailing batch (drop_last=False).
KeepLastBatchSize(rem) ==
    IF rem >= train_params.batch_size THEN train_params.batch_size ELSE rem

\* train.py:45-46: batch_size examples per batch, drop_last=True; 0 = exhausted.
NextBatchSize(rem) ==
    IF rem >= train_params.batch_size THEN train_params.batch_size ELSE 0

\* train.py:59: the loader delivers the next batch.
NextBatch ==
    /\ pc = "ForBatch"
    /\ NextBatchSize(remaining) > 0
    /\ x' = [bound |-> TRUE, epoch |-> epoch, idx |-> stats.in_epoch + 1,
             size |-> NextBatchSize(remaining)]
    /\ remaining' = remaining - NextBatchSize(remaining)
    /\ stats' = [stats EXCEPT !.batches = @ + 1, !.in_epoch = @ + 1]
    /\ pc' = "Forward"
    /\ UNCHANGED <<persistent, wiring, checkpoint, restarts, exc, start_epoch, epoch, it,
                   params, opt, grads, scheduler, loader_len, generated, logger>>

\* train.py:59: the loader is exhausted for this pass.
LoaderExhausted ==
    /\ pc = "ForBatch"
    /\ NextBatchSize(remaining) = 0
    /\ pc' = "SchedulerStep"
    /\ UNCHANGED <<persistent, wiring, checkpoint, restarts, exc, start_epoch, epoch, it,
                   params, opt, grads, scheduler, loader_len, remaining, x, generated,
                   logger, stats>>

\* train.py:59: iterating the loader raises (a worker or the dataset failed).
DatasetError ==
    /\ pc = "ForBatch"
    /\ exc' = "DatasetError"
    /\ pc' = "Exit"
    /\ UNCHANGED <<persistent, wiring, checkpoint, restarts, start_epoch, epoch, it,
                   params, opt, grads, scheduler, loader_len, remaining, x, generated,
                   logger, stats>>

\* DataParallel.scatter: torch.chunk of b examples over n devices.
ShardSize(b, n) == (b + n - 1) \div n

Shards(b, n) == (b + ShardSize(b, n) - 1) \div ShardSize(b, n)

ShardLen(b, n, i) ==
    IF i * ShardSize(b, n) <= b THEN ShardSize(b, n) ELSE b - (i - 1) * ShardSize(b, n)

RECURSIVE Gathered(_)
\* DataParallel.gather: the per-example losses of all shards, concatenated.
Gathered(rs) == IF rs = <<>> THEN 0 ELSE rs[1].size + Gathered(Tail(rs))

AllReturned == \A r \in DOMAIN replicas : replicas[r].state = "returned"

\* train.py:60 on the bare model: losses, generated = model(x)
Forward ==
    /\ pc = "Forward"
    /\ model = "SingleDevice"
    /\ generated' = x
    /\ stats' = [stats EXCEPT !.forwards = @ + 1, !.examples = @ + x.size]
    /\ pc' = "Backward"
    /\ UNCHANGED <<persistent, wiring, checkpoint, restarts, exc, start_epoch, epoch, it,
                   params, opt, grads, scheduler, loader_len, remaining, x, logger>>

\* train.py:60 on a wrapped model: the batch is split along its example axis
\* and one replica per shard starts on a read view of the parameters.
Scatter ==
    /\ pc = "Forward"
    /\ model \in {"Replicated", "ReplicatedSynced"}
    /\ replicas' = [i \in 1..Shards(x.size, device_ids) |->
                        [state |-> "running",
                         size  |-> ShardLen(x.size, device_ids, i),
                         seen  |-> params]]
    /\ pc' = "Gather"
    /\ UNCHANGED <<persistent, built, model, repeater, checkpoint, restarts, exc,
                   start_epoch, epoch, it, params, opt, grads, scheduler, loader_len,
                   remaining, x, generated, logger, stats>>

\* DataParallelWithCallback: a replica reaches the point where the
\* normalization statistics of all shards are combined.
ReplicaSync(r) ==
    /\ model = "ReplicatedSynced"
    /\ replicas[r].state = "running"
    /\ replicas' = [replicas EXCEPT ![r].state = "syncing"]
    /\ UNCHANGED <<persistent, built, model, repeater, checkpoint, restarts, exc, pc,
                   start_epoch, epoch, it, params, opt, grads, scheduler, loader_len,
                   remaining, x, generated, logger, stats>>

\* A replica finishes its forward pass and returns its LossBundle; with
\* synchronized statistics only once every replica has reached the sync point.
ReplicaForward(r) ==
    /\ \/ model = "Replicated" /\ replicas[r].state = "running"
       \/ /\ model = "ReplicatedSynced"
          /\ replicas[r].state = "syncing"
          /\ \A q \in DOMAIN replicas : replicas[q].state \in {"syncing", "returned"}
    /\ replicas' = [replicas EXCEPT ![r].state = "returned"]
    /\ UNCHANGED <<persistent, built, model, repeater, checkpoint, restarts, exc, pc,
                   start_epoch, epoch, it, params, opt, grads, scheduler, loader_len,
                   remaining, x, generated, logger, stats>>

\* A gather that takes the first LossBundle to arrive.
GatherFirst ==
    /\ pc = "Gather"
    /\ \E r \in DOMAIN replicas : replicas[r].state = "returned"
    /\ generated' = x
    /\ stats' = [stats EXCEPT !.forwards = @ + 1, !.examples = @ + Gathered(replicas)]
    /\ pc' = "Backward"
    /\ UNCHANGED <<persistent, wiring, checkpoint, restarts, exc, start_epoch, epoch, it,
                   params, opt, grads, scheduler, loader_len, remaining, x, logger>>

\* train.py:60 returns: parallel_apply has joined every replica and the
\* LossBundles are gathered on the coordinating device.
Gather ==
    /\ pc = "Gather"
    /\ AllReturned
    /\ generated' = x
    /\ stats' = [stats EXCEPT !.forwards = @ + 1, !.examples = @ + Gathered(replicas)]
    /\ replicas' = <<>>
    /\ pc' = "Backward"
    /\ UNCHANGED <<persistent, built, model, repeater, checkpoint, restarts, exc,
                   start_epoch, epoch, it, params, opt, grads, scheduler, loader_len,
                   remaining, x, logger>>

\* An error that ends train() without leaving the logger scope.
ForwardErrorLeaks ==
    /\ pc \in {"Forward", "Gather"}
    /\ AllReturned
    /\ replicas' = <<>>
    /\ exc' = "ContractViolation"
    /\ pc' = "Aborted"
    /\ UNCHANGED <<persistent, built, model, repeater, checkpoint, restarts, start_epoch,
                   epoch, it, params, opt, grads, scheduler, loader_len, remaining, x,
                   generated, logger, stats>>

\* train.py:60 raises: the Joint Reconstruction Step failed (on the bare model,
\* or in a replica, re-raised once every replica has been joined).
ForwardError ==
    /\ pc \in {"Forward", "Gather"}
    /\ AllReturned
    /\ replicas' = <<>>
    /\ exc' = "ContractViolation"
    /\ pc' = "Exit"
    /\ UNCHANGED <<persistent, built, model, repeater, checkpoint, restarts, start_epoch,
                   epoch, it, params, opt, grads, scheduler, loader_len, remaining, x,
                   generated, logger, stats>>

\* train.py:61-63 raises.
BackwardError ==
    /\ pc = "Backward"
    /\ exc' = "BackwardError"
    /\ pc' = "Exit"
    /\ UNCHANGED <<persistent, wiring, checkpoint, restarts, start_epoch, epoch, it,
                   params, opt, grads, scheduler, loader_len, remaining, x, generated,
                   logger, stats>>

\* train.py:64 raises before any parameter is updated.
OptimizerStepError ==
    /\ pc = "OptimizerStep"
    /\ exc' = "OptimizerError"
    /\ pc' = "Exit"
    /\ UNCHANGED <<persistent, wiring, checkpoint, restarts, start_epoch, epoch, it,
                   params, opt, grads, scheduler, loader_len, remaining, x, generated,
                   logger, stats>>

\* train.py:61-63: the summed loss is backpropagated into the .grad buffers.
Backward ==
    /\ pc = "Backward"
    /\ grads' = grads + 1
    /\ stats' = [stats EXCEPT !.backwards = @ + 1]
    /\ pc' = "OptimizerStep"
    /\ UNCHANGED <<persistent, wiring, checkpoint, restarts, exc, start_epoch, epoch, it,
                   params, opt, scheduler, loader_len, remaining, x, generated, logger>>

\* One Adam update of module m, from the gradients and the learning rate in force.
Update(m) == [module |-> m, epoch |-> epoch, lr |-> opt.lr, batches |-> grads]

\* train.py:64: optimizer.step() over the parameters of all three modules.
OptimizerStep ==
    /\ pc = "OptimizerStep"
    /\ params' = [m \in Modules |-> Append(params[m], Update(m))]
    /\ opt' = [opt EXCEPT !.steps = @ + 1]
    /\ stats' = [stats EXCEPT !.opt_steps = @ + 1]
    /\ pc' = "ZeroGrad"
    /\ UNCHANGED <<persistent, wiring, checkpoint, restarts, exc, start_epoch, epoch, it,
                   grads, scheduler, loader_len, remaining, x, generated, logger>>

\* A loop body that leaves the gradients in place.
ZeroGradSkipped ==
    /\ pc = "ZeroGrad"
    /\ pc' = "LogIter"
    /\ UNCHANGED <<persistent, wiring, checkpoint, restarts, exc, start_epoch, epoch, it,
                   params, opt, grads, scheduler, loader_len, remaining, x, generated,
                   logger, stats>>

\* train.py:65: optimizer.zero_grad()
ZeroGrad ==
    /\ pc = "ZeroGrad"
    /\ grads' = 0
    /\ pc' = "LogIter"
    /\ UNCHANGED <<persistent, wiring, checkpoint, restarts, exc, start_epoch, epoch, it,
                   params, opt, scheduler, loader_len, remaining, x, generated, logger,
                   stats>>

\* train.py:66-67: logger.log_iter(losses=...)
LogIter ==
    /\ pc = "LogIter"
    /\ logger' = [logger EXCEPT !.iters = @ + 1]
    /\ pc' = "ForBatch"
    /\ UNCHANGED <<persistent, wiring, checkpoint, restarts, exc, start_epoch, epoch, it,
                   params, opt, grads, scheduler, loader_len, remaining, x, generated,
                   stats>>

\* ----------------------------------------------------------- EpochBoundary
\* train.py:69: scheduler.step()
SchedulerStep ==
    /\ pc = "SchedulerStep"
    /\ scheduler' = [scheduler EXCEPT !.last_epoch = @ + 1, !.steps = @ + 1]
    /\ opt' = [opt EXCEPT !.lr = @ + MilestoneDecay(scheduler.last_epoch + 1)]
    /\ pc' = "LogEpoch"
    /\ UNCHANGED <<persistent, wiring, checkpoint, restarts, exc, start_epoch, epoch, it,
                   params, grads, loader_len, remaining, x, generated, logger, stats>>

\* A call that hands the logger the index of the next epoch.
LogEpochArgNext == epoch + 1

\* train.py:70: the first argument of log_epoch.
LogEpochArg == epoch

\* The checkpoint cadence: due when the advanced cursor is a multiple of
\* checkpoint_freq.
CheckpointDue(e) == (e + 1) % train_params.checkpoint_freq = 0

\* train.py:70-73: logger.log_epoch(epoch, {...}, inp=x, out=generated)
LogEpoch ==
    /\ pc = "LogEpoch"
    /\ x.bound /\ generated.bound
    /\ logger' = [logger EXCEPT !.epoch = LogEpochArg, !.has_models = TRUE,
                                !.epochs = @ + 1, !.inp = x, !.out = generated]
    /\ pc' = IF CheckpointDue(LogEpochArg) THEN "Checkpointing" ELSE "ForEpoch"
    /\ UNCHANGED <<persistent, wiring, checkpoint, restarts, exc, start_epoch, epoch, it,
                   params, opt, grads, scheduler, loader_len, remaining, x, generated,
                   stats>>

\* train.py:73: x and generated are bound only by the batch loop; with no batch
\* delivered in this process the call raises UnboundLocalError.
LogEpochUnbound ==
    /\ pc = "LogEpoch"
    /\ ~(x.bound /\ generated.bound)
    /\ exc' = "UnboundLocalError"
    /\ pc' = "Exit"
    /\ UNCHANGED <<persistent, wiring, checkpoint, restarts, start_epoch, epoch, it, params,
                   opt, grads, scheduler, loader_len, remaining, x, generated, logger,
                   stats>>

\* Checkpointing: persist a checkpoint tagged with the logged epoch.
Checkpointing ==
    /\ pc = "Checkpointing"
    /\ SaveCpk(logger.epoch)
    /\ pc' = "ForEpoch"
    /\ UNCHANGED <<inputs, log_dir, wiring, checkpoint, restarts, exc, start_epoch,
                   epoch, it, params, opt, grads, scheduler, loader_len, remaining, x,
                   generated, logger>>

\* The logger scope closes: a final checkpoint of the component map it was
\* last given, then the log file is closed.
Teardown ==
    /\ pc = "Exit"
    /\ IF logger.has_models
         THEN SaveCpk(logger.epoch)
         ELSE UNCHANGED <<store, atPersist, lastWritten, stats>>
    /\ logger' = [logger EXCEPT !.open = FALSE]
    /\ pc' = IF exc = "none" THEN "Finished" ELSE "Aborted"
    /\ UNCHANGED <<inputs, log_dir, wiring, checkpoint, restarts, exc, start_epoch,
                   epoch, it, params, opt, grads, scheduler, loader_len, remaining, x,
                   generated>>

\* --------------------------------------------------------- kill / relaunch
Stopped == {"Finished", "Aborted", "Killed"}

\* The process is killed from outside after some checkpoint was persisted;
\* everything but the files on disk is lost.
Kill ==
    /\ pc \notin Stopped
    /\ store # {}
    /\ pc' = "Killed"
    /\ ProcessStart(NoCheckpoint)
    /\ UNCHANGED <<persistent, restarts>>

\* The killed process is launched again with --checkpoint.
Relaunch ==
    /\ pc = "Killed"
    /\ store # {}
    /\ restarts < MaxRestarts
    /\ restarts' = restarts + 1
    /\ \E arg \in {PathTo(c.epoch) : c \in store}
                      \cup {MissingCheckpoint, CorruptCheckpoint} :
            ProcessStart(arg)
    /\ pc' = "ParseArgs"
    /\ UNCHANGED persistent

Next ==
    \/ ParseArgs
    \/ ConfigNotFound
    \/ LoadConfig
    \/ BuildModules
    \/ BuildDataset
    \/ StartFresh
    \/ Restore
    \/ RestoreFail
    \/ MakeScheduler
    \/ MakeLoader
    \/ MakeLoaderKeyError
    \/ MakeModel
    \/ OpenLogger
    \/ ForEpoch
    \/ LoopDone
    \/ NextBatch
    \/ LoaderExhausted
    \/ DatasetError
    \/ Forward
    \/ Scatter
    \/ \E r \in DOMAIN replicas : ReplicaSync(r)
    \/ \E r \in DOMAIN replicas : ReplicaForward(r)
    \/ Gather
    \/ ForwardError
    \/ Backward
    \/ BackwardError
    \/ OptimizerStep
    \/ OptimizerStepError
    \/ ZeroGrad
    \/ LogIter
    \/ SchedulerStep
    \/ LogEpoch
    \/ LogEpochUnbound
    \/ Checkpointing
    \/ Teardown
    \/ Kill
    \/ Relaunch

Spec == Init /\ [][Next]_vars

\* The driver states of the design.
EpochRunning ==
    {"ForBatch", "Forward", "Gather", "Backward", "OptimizerStep", "ZeroGrad", "LogIter"}

\* Positions of __main__ before train() is called.
MainSteps == {"ParseArgs", "CheckConfig", "BuildModules", "BuildDataset"}

PreLoop ==
    MainSteps \cup {"Initializing", "MakeScheduler", "MakeLoader", "MakeModel", "OpenLogger"}

\* The logical position: the epoch being trained, and from the epoch boundary
\* on the next one.
EpochCursor ==
    IF pc \in PreLoop THEN start_epoch
    ELSE IF pc \in EpochRunning \cup {"SchedulerStep"} THEN epoch
    ELSE it

\* Batches of one pass over the loader.
BatchesPerEpoch == loader_len \div train_params.batch_size

\* Number of updates of module m made while training epoch e.
EpochUpdates(m, e) ==
    Cardinality({i \in 1..Len(params[m]) : params[m][i].epoch = e})

\* ------------------------------------------------------------------ claims

\* C1: every delivered batch gets forward, backward, optimizer step and
\* gradient clearing in that order; the gradient buffers are empty when a
\* backward pass starts, every update was computed from the gradients of one
\* batch, and between batches the number of updates equals the number of
\* batches consumed.
C1_OneUpdatePerBatch ==
    /\ \A m \in Modules : \A i \in 1..Len(params[m]) : params[m][i].batches = 1
    /\ pc \in {"Forward", "Gather"} =>
          /\ stats.forwards = stats.batches - 1
          /\ stats.backwards = stats.batches - 1
          /\ stats.opt_steps = stats.batches - 1
          /\ grads = 0
    /\ pc = "Backward" =>
          /\ stats.forwards = stats.batches
          /\ stats.backwards = stats.batches - 1
          /\ stats.opt_steps = stats.batches - 1
          /\ grads = 0
    /\ pc = "OptimizerStep" =>
          /\ stats.forwards = stats.batches
          /\ stats.backwards = stats.batches
          /\ stats.opt_steps = stats.batches - 1
          /\ grads = 1
    /\ pc = "ZeroGrad" =>
          /\ stats.forwards = stats.batches
          /\ stats.backwards = stats.batches
          /\ stats.opt_steps = stats.batches
          /\ grads = 1
    /\ (pc \notin {"Forward", "Gather", "Backward", "OptimizerStep", "ZeroGrad"}
            /\ exc = "none") =>
          /\ stats.forwards = stats.batches
          /\ stats.backwards = stats.batches
          /\ stats.opt_steps = stats.batches
          /\ grads = 0

\* C1 witness: the backward pass of a later batch starts after earlier updates.
C1_Witness == pc = "Backward" /\ stats.opt_steps >= 2 /\ grads = 0

\* C2: when a run reaches Finished, also after a kill and a relaunch with a
\* persisted checkpoint, the parameters have been trained on every epoch
\* 0..num_epochs-1 exactly once.
C2_EveryEpochOnce ==
    pc = "Finished" =>
        \A m \in Modules : \A e \in 0..(train_params.num_epochs - 1) :
            EpochUpdates(m, e) = BatchesPerEpoch

\* C3: every update made while training epoch e used the learning-rate
\* multiplier 0.1^k with k the number of milestones <= e, in the first process
\* and in a relaunched one alike.
C3_SameMultiplierPerEpoch ==
    \A m \in Modules : \A i \in 1..Len(params[m]) :
        params[m][i].lr = Passed(params[m][i].epoch)

\* C4: the multiplier in force is 0.1^k with k the number of milestones the
\* scheduler's counter has passed.
C4_MultiplierIsPassedMilestones ==
    scheduler.built => opt.lr = Passed(scheduler.last_epoch)

C8_Cadence ==
    [][/\ (pc = "LogEpoch" /\ pc' \notin {"Killed", "Exit"}) =>
            /\ pc' \in {"Checkpointing", "ForEpoch"}
            /\ (pc' = "Checkpointing") <=>
                    (EpochCursor' % train_params.checkpoint_freq = 0)
            /\ logger'.epoch = epoch
       /\ (pc = "Checkpointing" /\ pc' # "Killed") =>
            /\ lastWritten' = epoch
            /\ lastWritten' = EpochCursor - 1
            /\ \E c \in store' : c.epoch = epoch
            /\ pc' = "ForEpoch"]_vars

\* C8 witness: a checkpoint is due after the second epoch with frequency 2.
C8_Witness ==
    /\ pc = "Checkpointing"
    /\ train_params.checkpoint_freq = 2
    /\ epoch = 1

\* C9: at Finished, after at least one optimizer step, the most recently
\* written checkpoint holds the final parameters and optimizer state.
C9_FinalCheckpoint ==
    (pc = "Finished" /\ stats.opt_steps > 0) =>
        \E c \in store :
            /\ c.epoch = lastWritten
            /\ c.state.generator = params["generator"]
            /\ c.state.bg_predictor = params["bg_predictor"]
            /\ c.state.region_predictor = params["region_predictor"]
            /\ c.state.optimizer_reconstruction = opt

\* C9 witness: Finished with a checkpoint frequency that does not divide the
\* epoch count.
C9_Witness ==
    /\ pc = "Finished"
    /\ stats.opt_steps > 0
    /\ train_params.num_epochs % train_params.checkpoint_freq # 0

\* C10: with a checkpoint path whose restore fails the run never leaves
\* Initializing except to abort: no optimizer step, no scheduler, no logger.
C10_RestoreFailureAborts ==
    checkpoint.kind \in {"missing", "corrupt"} =>
        /\ pc \in MainSteps \cup {"Initializing", "Aborted"}
        /\ stats.opt_steps = 0
        /\ ~scheduler.built
        /\ scheduler.steps = 0
        /\ logger = NewLogger
        /\ params = NewParams

\* C10 witness: a relaunch with an unreadable checkpoint has aborted.
C10_Witness ==
    /\ pc = "Aborted"
    /\ checkpoint.kind = "corrupt"
    /\ restarts = 1
    /\ store # {}

\* C11: num_repeats is optional: without the key train() raises no missing-key
\* error and an epoch is one pass over the unrepeated dataset, floor(D/B)
\* batches; the dataset is wrapped in the repeater exactly when the key is
\* present and its value is not 1.
C11_NumRepeatsOptional ==
    /\ exc # "KeyError"
    /\ (pc \in EpochRunning /\ ~train_params.has_num_repeats) =>
          /\ ~repeater
          /\ BatchesPerEpoch = dataset_len \div train_params.batch_size
    /\ pc \in EpochRunning =>
          (repeater <=> (train_params.has_num_repeats /\ train_params.num_repeats # 1))

\* C12: the entry point checks the configuration path before anything else:
\* with a path that does not exist the process stops with FileNotFoundError,
\* the configuration unparsed, no module, dataset, optimizer or logger
\* constructed and no file or directory created; and in every run nothing has
\* been constructed when the check is made.
C12_ConfigCheckedFirst ==
    /\ pc \in {"ParseArgs", "CheckConfig"} => built = {}
    /\ ~config_exists =>
          /\ pc \in {"ParseArgs", "CheckConfig", "Aborted"}
          /\ pc = "Aborted" => exc = "FileNotFoundError"
          /\ built = {}
          /\ logger = NewLogger
          /\ ~log_dir
          /\ store = {}
          /\ stats = NewStats

\* C12 witness: the process has stopped on the missing configuration file.
C12_Witness ==
    /\ pc = "Aborted"
    /\ ~config_exists
    /\ exc = "FileNotFoundError"

UpdatesOf(g, e) == Cardinality({i \in 1..Len(g) : g[i].epoch = e})

\* C14: every checkpoint is written at an epoch boundary, never between two
\* optimizer steps of one epoch, also on teardown: every checkpoint in the
\* store holds, for each module, only updates of epochs up to its tag, and of
\* each epoch a whole pass of floor(L/B) updates.
C14_CheckpointsAtEpochBoundaries ==
    \A c \in store : \A m \in Modules :
        /\ \A i \in 1..Len(c.state[m]) : c.state[m][i].epoch <= c.epoch
        /\ \A e \in 0..c.epoch :
              UpdatesOf(c.state[m], e) %
                  ((dataset_len * train_params.num_repeats) \div train_params.batch_size) = 0

\* C15: once opened, the logger scope is closed on every exit path, the
\* normal one and the ones taken by an error of dataset iteration, of the
\* forward or backward pass or of the optimizer step; once an error is
\* propagating the process only leaves the scope and stops: no further batch,
\* optimizer step, scheduler step or epoch log, and no retry.
C15_LoggerClosedOnEveryExit ==
    /\ [](pc \in {"Finished", "Aborted"} => ~logger.open)
    /\ []("logger" \in built => (logger.open <=> pc \notin {"Finished", "Aborted"}))
    /\ [][(exc # "none" /\ pc' # "Killed") =>
            /\ exc' = exc
            /\ pc' = "Aborted"
            /\ stats'.batches = stats.batches
            /\ stats'.forwards = stats.forwards
            /\ stats'.opt_steps = stats.opt_steps
            /\ params' = params
            /\ scheduler' = scheduler
            /\ logger'.epochs = logger.epochs]_vars

\* C15 witness: the forward pass of a later batch raised and the process has
\* stopped with the logger closed.
C15_Witness ==
    /\ pc = "Aborted"
    /\ exc = "ContractViolation"
    /\ "logger" \in built
    /\ ~logger.open
    /\ stats.opt_steps >= 1

\* C16: the execution mode is chosen once, before the first batch, and then
\* stays: SingleDevice without accelerator whatever device_ids and use_sync_bn
\* are, and with an accelerator ReplicatedSynced exactly when use_sync_bn is
\* present and true, Replicated otherwise; the choice raises no error.
C16_ExecutionModeChosenOnce ==
    /\ [](model # "none" =>
            /\ ~cuda_available => model = "SingleDevice"
            /\ cuda_available =>
                  /\ model \in {"Replicated", "ReplicatedSynced"}
                  /\ model = "ReplicatedSynced" <=>
                        (train_params.has_use_sync_bn /\ train_params.use_sync_bn))
    /\ [](stats.batches > 0 => model # "none")
    /\ [](pc = "OpenLogger" => (model # "none" /\ exc = "none"))
    /\ [][(model # "none" /\ pc' # "Killed") => model' = model]_vars

\* C16 witness: batches are trained on the bare model on a host without
\* accelerator although two device ids and use_sync_bn were given.
C16_Witness ==
    /\ pc = "LogIter"
    /\ model = "SingleDevice"
    /\ device_ids = 2
    /\ train_params.has_use_sync_bn
    /\ train_params.use_sync_bn
    /\ stats.batches >= 2

\* C17: the scheduler is advanced once per epoch, after the loader is exhausted
\* and before the epoch log: while the batches of epoch e are trained its
\* counter is e, when log_epoch(e) runs and when the checkpoint tagged e is
\* written its counter is e + 1, and it has been stepped once for every epoch
\* the process has trained, in a fresh and in a resumed run.
C17_SchedulerOncePerEpoch ==
    /\ pc \in EpochRunning =>
          /\ scheduler.last_epoch = epoch
          /\ scheduler.steps = epoch - start_epoch
    /\ pc = "SchedulerStep" =>
          /\ NextBatchSize(remaining) = 0
          /\ scheduler.last_epoch = epoch
          /\ scheduler.steps = epoch - start_epoch
    /\ pc \in {"LogEpoch", "Checkpointing"} =>
          /\ scheduler.last_epoch = epoch + 1
          /\ scheduler.steps = epoch - start_epoch + 1
    /\ pc = "Checkpointing" => logger.epoch = scheduler.last_epoch - 1
    /\ pc = "ForEpoch" =>
          /\ scheduler.last_epoch = it
          /\ scheduler.steps = it - start_epoch
    /\ logger.epochs <= scheduler.steps

\* C17 witness: the epoch log of a resumed run that started at epoch 1.
C17_Witness ==
    /\ pc = "LogEpoch"
    /\ restarts = 1
    /\ start_epoch = 1
    /\ epoch = 1
    /\ scheduler.last_epoch = 2
    /\ scheduler.steps = 1

\* C18: for every start_epoch and num_epochs the driver ends in Finished, unless
\* the configuration, the checkpoint or a collaborator raised, having trained
\* the epochs start_epoch .. num_epochs-1 in increasing order, each once:
\* max(0, num_epochs - start_epoch) epoch logs and scheduler steps; with
\* start_epoch >= num_epochs it makes no optimizer step, no scheduler step and
\* no epoch log.
C18_TrainsRemainingEpochs ==
    LET todo == IF train_params.num_epochs > start_epoch
                    THEN train_params.num_epochs - start_epoch ELSE 0
        raised == {"FileNotFoundError", "KeyError", "NotFoundError",
                   "CorruptCheckpointError", "DatasetError", "ContractViolation",
                   "BackwardError", "OptimizerError"}
    IN  /\ pc \in {"Exit", "Aborted"} => exc \in raised \cup {"none"}
        /\ pc = "Finished" =>
              /\ logger.epochs = todo
              /\ scheduler.steps = todo
              /\ stats.opt_steps = todo * BatchesPerEpoch
        /\ pc \in EpochRunning =>
              /\ start_epoch <= epoch
              /\ epoch < train_params.num_epochs
              /\ epoch = start_epoch + logger.epochs
        /\ (start_epoch >= train_params.num_epochs /\ "logger" \in built) =>
              /\ pc \in {"ForEpoch", "Exit", "Finished"}
              /\ stats.opt_steps = 0
              /\ scheduler.steps = 0
              /\ logger.epochs = 0

\* C19: when the epoch log is emitted for epoch e its input and output are
\* defined and are the batch and the generated output of the last batch
\* trained in epoch e, also when the loader delivers no batch in the epoch.
C19_EpochLogOfLastBatch ==
    /\ pc = "LogEpoch" =>
          /\ x.bound
          /\ generated.bound
          /\ x.epoch = epoch
          /\ x.idx = stats.in_epoch
          /\ generated = x
    /\ logger.epochs > 0 =>
          /\ logger.inp.bound
          /\ logger.inp.epoch = logger.epoch
          /\ logger.out = logger.inp
    /\ exc # "UnboundLocalError"

====
